---- MODULE Spec2Model ----
(***************************************************************************)
(* Model of crates/oxc_linter/src/config/mod.rs: the ESLint configuration  *)
(* layer of the linter.  A configuration file is read and parsed           *)
(* (ESLintConfig::new), its "rules" object is decoded entry by entry       *)
(* (parse_rules, parse_rule_name, resolve_rule_value), its "settings"      *)
(* object is decoded (parse_settings), and the resulting configuration is  *)
(* applied to a caller-owned set of rules (ESLintConfig::override_rules).  *)
(*                                                                         *)
(* Representation.                                                         *)
(*  - A serde_json::Value is a record with a field tag:                    *)
(*      null, bool (b), number (n), string (s), array (items, a sequence), *)
(*      object (members, the sequence of <<key, value>> pairs in the       *)
(*      iteration order of serde_json::Map, keys pairwise distinct).       *)
(*  - An object key is a sequence of atoms.  The atoms are '@', '/' and    *)
(*    words that contain neither; no concatenation of atoms can be read as *)
(*    another concatenation of atoms, so two keys are the same string iff  *)
(*    they are the same sequence.  split_once and trim_start_matches only  *)
(*    inspect '@' and '/', and the alias match compares whole strings.     *)
(*  - An Option<T> is a sequence: <<>> for None, <<x>> for Some(x).        *)
(*  - A text (String produced by to_string) is a sequence of tokens.       *)
(***************************************************************************)
EXTENDS Integers, Sequences, FiniteSets, TLC

VARIABLES
    file,       \* the configuration file handed to ESLintConfig::new
    result,     \* outcome of ESLintConfig::new (or "unloaded" before it)
    active,     \* the caller-owned FxHashSet<RuleEnum> (rules_to_override)
    before,     \* the active set at entry of the latest override_rules call
    applied,    \* number of override_rules calls made with this configuration
    call,       \* a direct call of one of the decoding functions: [fn, arg]
    ret         \* what that call returned (<<>> while it has not run)

vars == <<file, result, active, before, applied, call, ret>>

-----------------------------------------------------------------------------
(* Bounds *)

MaxArrayLen == 4    \* longest rule-value array drawn as an input
MaxKeyLen == 4      \* longest rule key (in atoms) drawn as an input
MaxRules == 2       \* most entries of a "rules" object
MaxApply == 2       \* most override_rules calls per configuration

-----------------------------------------------------------------------------
(* Option<T> *)

None == <<>>
Some(x) == <<x>>

-----------------------------------------------------------------------------
(* serde_json::Value *)

Null == [tag |-> "null"]
Bool(b) == [tag |-> "bool", b |-> b]
Number(n) == [tag |-> "number", n |-> n]
String(s) == [tag |-> "string", s |-> s]
Array(items) == [tag |-> "array", items |-> items]
Object(members) == [tag |-> "object", members |-> members]

Key(word) == <<word>>

\* Value::as_str
as_str(value) == IF value.tag = "string" THEN Some(value.s) ELSE None

\* Value::as_array
as_array(value) == IF value.tag = "array" THEN Some(value.items) ELSE None

\* Map::get: the value stored under key, if any
RECURSIVE GetFrom(_, _, _)
GetFrom(members, key, i) ==
    IF i > Len(members) THEN None
    ELSE IF members[i][1] = key THEN Some(members[i][2])
    ELSE GetFrom(members, key, i + 1)

get(object, key) == GetFrom(object.members, key, 1)

\* Concatenation of a sequence of texts, separated by sep
RECURSIVE Join(_, _)
Join(texts, sep) ==
    IF Len(texts) = 0 THEN <<>>
    ELSE IF Len(texts) = 1 THEN texts[1]
    ELSE texts[1] \o sep \o Join(Tail(texts), sep)

\* The decimal text of a small natural number
NumberText(n) == <<"0", "1", "2", "3", "4", "5", "6", "7", "8", "9">>[n + 1]

\* impl Display for Value (Value::to_string): the compact JSON text
RECURSIVE to_string(_)
to_string(value) ==
    CASE value.tag = "null" -> <<"null">>
      [] value.tag = "bool" -> IF value.b THEN <<"true">> ELSE <<"false">>
      [] value.tag = "number" -> <<NumberText(value.n)>>
      [] value.tag = "string" -> <<"\"", value.s, "\"">>
      [] value.tag = "array" ->
            <<"[">> \o Join([i \in 1..Len(value.items) |-> to_string(value.items[i])], <<",">>)
                    \o <<"]">>
      [] value.tag = "object" ->
            <<"{">> \o Join([i \in 1..Len(value.members) |->
                                <<"\"">> \o value.members[i][1] \o <<"\"", ":">>
                                    \o to_string(value.members[i][2])], <<",">>)
                    \o <<"}">>

-----------------------------------------------------------------------------
(* Result<T, Error> *)

Ok(x) == [ok |-> TRUE, val |-> x]
Err(e) == [ok |-> FALSE, err |-> e]

-----------------------------------------------------------------------------
(* AllowWarnDeny and its decoding *)

AllowWarnDeny == {"Allow", "Warn", "Deny"}

SeverityError(text) == [kind |-> "FailedToParseAllowWarnDeny", value |-> text]

\* AllowWarnDeny::try_from(&str)
SeverityFromStr(s) ==
    CASE s = "off" -> Ok("Allow")
      [] s = "warn" -> Ok("Warn")
      [] s = "error" -> Ok("Deny")
      [] OTHER -> Err(SeverityError(<<s>>))

\* AllowWarnDeny::try_from(&Value)
SeverityFromValue(value) ==
    CASE value.tag = "string" -> SeverityFromStr(value.s)
      [] value.tag = "number" ->
            CASE value.n = 0 -> Ok("Allow")
              [] value.n = 1 -> Ok("Warn")
              [] value.n = 2 -> Ok("Deny")
              [] OTHER -> Err(SeverityError(to_string(value)))
      [] OTHER -> Err(SeverityError(to_string(value)))

-----------------------------------------------------------------------------
(* resolve_rule_value *)

FailedToParseRuleValueError(text, msg) ==
    [kind |-> "FailedToParseRuleValueError", value |-> text, msg |-> msg]

\* As SkipTake, without the take(2)
SkipOnly(v) == SubSeq(v, 2, Len(v))

\* v.iter().skip(1).take(2), cloned into a Vec
SkipTake(v) == SubSeq(v, 2, IF Len(v) < 3 THEN Len(v) ELSE 3)

\* As resolve_rule_value, with a scalar that is not a string decoded as a severity
resolve_rule_value_scalar(value) ==
    IF value.tag \notin {"array"}
    THEN LET sev == SeverityFromValue(value)
         IN IF sev.ok THEN Ok(<<sev.val, None>>) ELSE sev
    ELSE IF Len(value.items) > 0
    THEN LET items == SkipTake(value.items)
             sev == SeverityFromValue(value.items[1])
         IN IF sev.ok
            THEN Ok(<<sev.val, IF Len(items) = 0 THEN None ELSE Some(Array(items))>>)
            ELSE sev
    ELSE Err(FailedToParseRuleValueError(to_string(value), "Invalid rule value"))

resolve_rule_value(value) ==
    IF as_str(value) # None
    THEN LET sev == SeverityFromStr(as_str(value)[1])
         IN IF sev.ok THEN Ok(<<sev.val, None>>) ELSE sev
    ELSE IF as_array(value) # None /\ Len(as_array(value)[1]) > 0
    THEN LET v == as_array(value)[1]
             items == SkipTake(v)
             config == IF Len(items) = 0 THEN None ELSE Some(Array(items))
             sev == SeverityFromValue(v[1])
         IN IF sev.ok THEN Ok(<<sev.val, config>>) ELSE sev
    ELSE Err(FailedToParseRuleValueError(to_string(value), "Invalid rule value"))

-----------------------------------------------------------------------------
(* parse_rule_name *)

\* Position of the first occurrence of atom c in s, 0 if there is none
RECURSIVE FindFrom(_, _, _)
FindFrom(s, c, i) ==
    IF i > Len(s) THEN 0
    ELSE IF s[i] = c THEN i
    ELSE FindFrom(s, c, i + 1)

\* As split_once, at the last occurrence of c (str::rsplit_once)
RECURSIVE FindLastFrom(_, _, _)
FindLastFrom(s, c, i) ==
    IF i < 1 THEN 0
    ELSE IF s[i] = c THEN i
    ELSE FindLastFrom(s, c, i - 1)

rsplit_once(s, c) ==
    LET i == FindLastFrom(s, c, Len(s))
    IN IF i = 0 THEN None
       ELSE Some(<<SubSeq(s, 1, i - 1), SubSeq(s, i + 1, Len(s))>>)

\* str::split_once
split_once(s, c) ==
    LET i == FindFrom(s, c, 1)
    IN IF i = 0 THEN None
       ELSE Some(<<SubSeq(s, 1, i - 1), SubSeq(s, i + 1, Len(s))>>)

\* str::trim_start_matches
RECURSIVE trim_start_matches(_, _)
trim_start_matches(s, c) ==
    IF Len(s) > 0 /\ s[1] = c THEN trim_start_matches(Tail(s), c) ELSE s

parse_rule_name(name) ==
    IF split_once(name, "/") # None
    THEN LET parts == split_once(name, "/")[1]
             category == trim_start_matches(parts[1], "@")
             mapped == CASE category = <<"typescript-eslint">> -> <<"typescript">>
                         [] category = <<"jsx-a11y">> -> <<"jsx_a11y">>
                         [] OTHER -> category
         IN <<mapped, parts[2]>>
    ELSE <<(<<"eslint">>), name>>

-----------------------------------------------------------------------------
(* parse_settings *)

\* The unwinding of a thread out of a function: Option::unwrap on None
Panic == [panic |-> "called Option::unwrap() on a None value"]

JsxA11y(polymorphic_prop_name, components) ==
    [polymorphic_prop_name |-> polymorphic_prop_name, components |-> components]

LintSettings(jsx_a11y) == [jsx_a11y |-> jsx_a11y]

\* LintSettings::default()
DefaultSettings == LintSettings(JsxA11y(None, << >>))

\* An object's members as a map from key to value
AsMap(members) ==
    [k \in {members[i][1] : i \in 1..Len(members)} |-> GetFrom(members, k, 1)[1]]

parse_settings(setting_value) ==
    IF setting_value.tag = "object"
       /\ get(setting_value, Key("jsx-a11y")) # None
       /\ get(setting_value, Key("jsx-a11y"))[1].tag = "object"
    THEN LET jsx_a11y == get(setting_value, Key("jsx-a11y"))[1]
             comps == get(jsx_a11y, Key("components"))
             hasComps == comps # None /\ comps[1].tag = "object"
             poly == get(jsx_a11y, Key("polymorphicPropName"))
         IN IF hasComps /\ \E i \in 1..Len(comps[1].members) :
                               as_str(comps[1].members[i][2]) = None
            THEN Panic
            ELSE LintSettings(JsxA11y(
                    IF poly # None /\ poly[1].tag = "string" THEN Some(poly[1].s) ELSE None,
                    IF hasComps
                    THEN LET map == AsMap(comps[1].members)
                         IN [k \in DOMAIN map |-> as_str(map[k])[1]]
                    ELSE << >>))
    ELSE DefaultSettings

parse_settings_from_root(root_json) ==
    IF root_json.tag # "object" THEN DefaultSettings
    ELSE IF get(root_json, Key("settings")) = None THEN DefaultSettings
    ELSE parse_settings(get(root_json, Key("settings"))[1])

-----------------------------------------------------------------------------
(* parse_rules *)

ESLintRuleConfig(plugin_name, rule_name, severity, config) ==
    [plugin_name |-> plugin_name, rule_name |-> rule_name,
     severity |-> severity, config |-> config]

\* As CollectRules, dropping the entries that fail to decode
RECURSIVE CollectRulesLenient(_, _)
CollectRulesLenient(members, i) ==
    IF i > Len(members) THEN Ok(<<>>)
    ELSE LET name == parse_rule_name(members[i][1])
             rv == resolve_rule_value(members[i][2])
             rest == CollectRulesLenient(members, i + 1)
         IN IF rv.ok
            THEN Ok(<<ESLintRuleConfig(name[1], name[2], rv.val[1], rv.val[2])>> \o rest.val)
            ELSE rest

\* .map(..).collect::<Result<Vec<_>, Error>>(): stops at the first Err
RECURSIVE CollectRules(_, _)
CollectRules(members, i) ==
    IF i > Len(members) THEN Ok(<<>>)
    ELSE LET name == parse_rule_name(members[i][1])
             rv == resolve_rule_value(members[i][2])
         IN IF ~rv.ok THEN rv
            ELSE LET rest == CollectRules(members, i + 1)
                 IN IF rest.ok
                    THEN Ok(<<ESLintRuleConfig(name[1], name[2], rv.val[1], rv.val[2])>>
                                \o rest.val)
                    ELSE rest

parse_rules(root_json) ==
    IF root_json.tag # "object" THEN Ok(<<>>)
    ELSE IF get(root_json, Key("rules")) = None THEN Ok(<<>>)
    ELSE IF get(root_json, Key("rules"))[1].tag # "object" THEN Ok(<<>>)
    ELSE CollectRules(get(root_json, Key("rules"))[1].members, 1)

-----------------------------------------------------------------------------
(* ESLintConfig::read_json and ESLintConfig::new *)

\* A file: unreadable, or a text that is JSON (json = Some(value)) or is not;
\* mime is what mime_guess::from_path makes of the path
Unreadable == [kind |-> "unreadable"]
Text(json, mime) == [kind |-> "text", json |-> json, mime |-> mime]

FailedToParseConfigError(errors) == [kind |-> "FailedToParseConfigError", errors |-> errors]

read_json(f) ==
    IF f.kind = "unreadable"
    THEN Err(FailedToParseConfigError(<<[kind |-> "FailedToOpenFileError"]>>))
    ELSE IF f.json = None
    THEN Err(FailedToParseConfigError(<<[kind |-> "FailedToParseConfigJsonError",
            msg |-> CASE f.mime = "json" -> <<"err">>
                      [] f.mime = "other" -> <<"only json configuration is supported">>
                      [] OTHER -> <<"err", ", if the configuration is not a json file, please use json instead.">>]>>))
    ELSE Ok(f.json[1])

ESLintConfig(rules, settings) == [rules |-> rules, settings |-> settings]

\* ESLintConfig::new: Ok(config), Err(error) or a panic
new(f) ==
    LET json == read_json(f)
    IN IF ~json.ok THEN json
       ELSE LET rules == parse_rules(json.val)
            IN IF ~rules.ok THEN rules
               ELSE LET settings == parse_settings_from_root(json.val)
                    IN IF settings = Panic THEN Panic
                       ELSE Ok(ESLintConfig(rules.val, settings))

-----------------------------------------------------------------------------
(* RuleEnum and ESLintConfig::override_rules *)

\* A rule instance: its kind (plugin_name, rule_name) and what it carries
RuleEnum(plugin_name, rule_name, config, severity) ==
    [plugin_name |-> plugin_name, rule_name |-> rule_name,
     config |-> config, severity |-> severity]

\* impl PartialEq / Hash for RuleEnum: rules are keyed by their kind
SameRule(a, b) == a.plugin_name = b.plugin_name /\ a.rule_name = b.rule_name

\* RuleEnum::read_json: the same kind of rule, built from the given configuration
RuleReadJson(rule, maybe_value) == [rule EXCEPT !.config = maybe_value]

\* FxHashSet::remove
remove(set, rule) == {r \in set : ~SameRule(r, rule)}

\* FxHashSet::replace
replace(set, rule) == remove(set, rule) \cup {rule}

\* As find, from the back (Iterator::rfind): the last matching entry
RECURSIVE rfind_from(_, _, _)
rfind_from(rules, rule, i) ==
    IF i < 1 THEN None
    ELSE IF rules[i].plugin_name = rule.plugin_name /\ rules[i].rule_name = rule.rule_name
    THEN Some(rules[i])
    ELSE rfind_from(rules, rule, i - 1)

rfind(rules, rule, i) == rfind_from(rules, rule, Len(rules))

\* As find, passing over the entries whose configuration the rule already carries
RECURSIVE find_changed(_, _, _)
find_changed(rules, rule, i) ==
    IF i > Len(rules) THEN None
    ELSE IF /\ rules[i].plugin_name = rule.plugin_name
            /\ rules[i].rule_name = rule.rule_name
            /\ rules[i].config # rule.config
    THEN Some(rules[i])
    ELSE find_changed(rules, rule, i + 1)

\* self.rules.iter().find(|r| r.plugin_name == plugin_name && r.rule_name == rule_name)
RECURSIVE find(_, _, _)
find(rules, rule, i) ==
    IF i > Len(rules) THEN None
    ELSE IF rules[i].plugin_name = rule.plugin_name /\ rules[i].rule_name = rule.rule_name
    THEN Some(rules[i])
    ELSE find(rules, rule, i + 1)

\* The first loop of override_rules: the rules staged for replacement and removal
RECURSIVE Stage(_, _, _, _)
Stage(rules, order, i, acc) ==
    IF i > Len(order) THEN acc
    ELSE LET rule == order[i]
             found == find(rules, rule, 1)
         IN IF found = None THEN Stage(rules, order, i + 1, acc)
            ELSE IF found[1].severity \in {"Warn", "Deny"}
            THEN Stage(rules, order, i + 1,
                       [acc EXCEPT !.replace = Append(@, RuleReadJson(rule, found[1].config))])
            ELSE Stage(rules, order, i + 1, [acc EXCEPT !.remove = Append(@, rule)])

RECURSIVE RemoveAll(_, _)
RemoveAll(set, rules) ==
    IF Len(rules) = 0 THEN set ELSE RemoveAll(remove(set, Head(rules)), Tail(rules))

RECURSIVE ReplaceAll(_, _)
ReplaceAll(set, rules) ==
    IF Len(rules) = 0 THEN set ELSE ReplaceAll(replace(set, Head(rules)), Tail(rules))

\* As override_rules, also inserting a rule for each Warn or Deny entry
override_rules_inserting(rules, rules_to_override, order) ==
    LET staged == Stage(rules, order, 1, [replace |-> <<>>, remove |-> <<>>])
        set == ReplaceAll(RemoveAll(rules_to_override, staged.remove), staged.replace)
    IN set \cup {RuleEnum(rules[i].plugin_name, rules[i].rule_name, rules[i].config,
                          rules[i].severity) :
                    i \in {j \in 1..Len(rules) :
                             /\ rules[j].severity # "Allow"
                             /\ \A r \in set : ~SameRule(r, rules[j])}}

\* order is the order in which rules_to_override.iter() yields the set
override_rules(rules, rules_to_override, order) ==
    LET staged == Stage(rules, order, 1, [replace |-> <<>>, remove |-> <<>>])
    IN ReplaceAll(RemoveAll(rules_to_override, staged.remove), staged.replace)

\* The orders in which a hash set can be iterated
Orders(set) ==
    {order \in [1..Cardinality(set) -> set] : {order[i] : i \in DOMAIN order} = set}

-----------------------------------------------------------------------------
(* Inputs *)

\* Sequences over S of length at most n
SeqsUpTo(S, n) == UNION {[1..k -> S] : k \in 0..n}

OptX == Object(<< <<Key("x"), Number(1)>> >>)
OptY == Object(<< <<Key("y"), Number(2)>> >>)

\* Rule values handed to resolve_rule_value directly
Scalars ==
    {String("off"), String("warn"), String("error"), String("on"),
     Number(0), Number(1), Number(2), Number(3), Bool(TRUE), Null, OptX}

ArrayElems == {String("error"), Number(1), String("on"), OptX}

RuleValues == Scalars \cup {Array(items) : items \in SeqsUpTo(ArrayElems, MaxArrayLen)}

\* Rule keys handed to parse_rule_name directly
KeyAtoms == {"@", "/", "typescript-eslint", "jsx-a11y", "no-var"}

RuleKeys == SeqsUpTo(KeyAtoms, MaxKeyLen)

\* Values handed to parse_settings directly
Components(bad) ==
    Object(<< <<Key("Link"), String("a")>> >>
           \o (IF bad THEN << <<Key("Button"), Number(1)>> >> ELSE <<>>))

SettingsValues ==
    {Null, String("jsx-a11y"), Object(<<>>),
     Object(<< <<Key("jsx-a11y"), String("on")>> >>),
     Object(<< <<Key("jsx-a11y"), Object(<<>>)>> >>),
     Object(<< <<Key("jsx-a11y"), Object(<< <<Key("components"), String("a")>>,
                                           <<Key("polymorphicPropName"), Number(1)>> >>)>> >>)}
    \cup {Object(<< <<Key("jsx-a11y"), Object(<< <<Key("components"), Components(bad)>> >>
                                              \o poly)>> >>) :
            bad \in BOOLEAN,
            poly \in {<<>>, << <<Key("polymorphicPropName"), String("as")>> >>}}

Calls ==
    {[fn |-> "resolve_rule_value", arg |-> v] : v \in RuleValues}
    \cup {[fn |-> "parse_rule_name", arg |-> k] : k \in RuleKeys}
    \cup {[fn |-> "parse_settings", arg |-> v] : v \in SettingsValues}

\* Configuration documents: the keys and values of their "rules" entries
DocKeys ==
    {<<"no-var">>, <<"@", "typescript-eslint", "/", "ban">>, <<"typescript", "/", "ban">>}

DocValues ==
    {String("off"), String("error"), Array(<<String("warn"), OptX>>),
     Array(<<Number(2), OptX, OptY>>), Array(<<>>), String("on")}

\* The "rules" objects: keys pairwise distinct
RulesObjects ==
    {Object(members) : members \in
        {m \in SeqsUpTo(DocKeys \X DocValues, MaxRules) :
            \A i, j \in DOMAIN m : i # j => m[i][1] # m[j][1]}}

DocSettings ==
    {Object(<< <<Key("jsx-a11y"), Object(<< <<Key("components"), Components(bad)>>,
                                           <<Key("polymorphicPropName"), String("as")>> >>)>> >>) :
        bad \in BOOLEAN}

Roots ==
    {Null, Object(<< <<Key("rules"), String("off")>> >>)}
    \cup {Object(rules \o settings) :
            rules \in {<<>>} \cup {<< <<Key("rules"), r>> >> : r \in RulesObjects},
            settings \in {<<>>} \cup {<< <<Key("settings"), st>> >> : st \in DocSettings}}

Files ==
    {Unreadable}
    \cup {Text(None, mime) : mime \in {"json", "other", "none"}}
    \cup {Text(Some(root), "json") : root \in Roots}

\* The rule kinds the caller can have activated, and the rules of those kinds
RuleKinds == {<<(<<"eslint">>), (<<"no-var">>)>>, <<(<<"typescript">>), (<<"ban">>)>>}

Rules ==
    {RuleEnum(kind[1], kind[2], config, severity) :
        kind \in RuleKinds, config \in {None, Some(Array(<<OptY>>))},
        severity \in {"Warn", "Deny"}}

\* A set holds at most one rule of a kind
ActiveSets ==
    {set \in SUBSET Rules : \A a, b \in set : SameRule(a, b) => a = b}

-----------------------------------------------------------------------------
(* The state machine *)

Unloaded == [status |-> "unloaded"]
Consumed(settings) == [status |-> "consumed", settings |-> settings]
NoCall == [fn |-> "none"]

\* The load: ESLintConfig::new(path)
New ==
    /\ result = Unloaded
    /\ result' = (LET r == new(file)
                  IN IF r = Panic THEN [status |-> "panic"]
                     ELSE IF r.ok THEN [status |-> "ok", config |-> r.val]
                     ELSE [status |-> "err", err |-> r.err])
    /\ UNCHANGED <<file, active, before, applied, call, ret>>

\* config.override_rules(&mut active)
OverrideRules ==
    /\ result.status = "ok"
    /\ applied < MaxApply
    /\ \E order \in Orders(active) :
          active' = override_rules(result.config.rules, active, order)
    /\ before' = active
    /\ applied' = applied + 1
    /\ UNCHANGED <<file, result, call, ret>>

\* config.settings(): consumes the configuration
Settings ==
    /\ result.status = "ok"
    /\ result' = Consumed(result.config.settings)
    /\ UNCHANGED <<file, active, before, applied, call, ret>>

Init ==
    /\ file \in Files
    /\ result = Unloaded
    /\ active \in ActiveSets
    /\ before = active
    /\ applied = 0
    /\ call = NoCall
    /\ ret = None

Next == New \/ OverrideRules \/ Settings

Spec == Init /\ [][Next]_vars

\* Direct calls of the decoding functions
CallResolveRuleValue ==
    /\ call.fn = "resolve_rule_value"
    /\ ret = None
    /\ ret' = Some(resolve_rule_value(call.arg))
    /\ UNCHANGED <<file, result, active, before, applied, call>>

CallParseRuleName ==
    /\ call.fn = "parse_rule_name"
    /\ ret = None
    /\ ret' = Some(parse_rule_name(call.arg))
    /\ UNCHANGED <<file, result, active, before, applied, call>>

CallParseSettings ==
    /\ call.fn = "parse_settings"
    /\ ret = None
    /\ ret' = Some(parse_settings(call.arg))
    /\ UNCHANGED <<file, result, active, before, applied, call>>

InitDecode ==
    /\ call \in Calls
    /\ ret = None
    /\ file = Unreadable
    /\ result = Unloaded
    /\ active = {}
    /\ before = {}
    /\ applied = 0

NextDecode == CallResolveRuleValue \/ CallParseRuleName \/ CallParseSettings

SpecDecode == InitDecode /\ [][NextDecode]_vars

-----------------------------------------------------------------------------
(* Properties of ESLintConfig::override_rules, under Spec *)

Overridden == result.status = "ok" /\ applied > 0

\* The (plugin_name, rule_name) identity of a rule or of a configuration entry
Identity(r) == <<r.plugin_name, r.rule_name>>

Identities(set) == {Identity(r) : r \in set}

\* The positions of the configuration entries that name the rule
Matches(rule) ==
    {i \in 1..Len(result.config.rules) : Identity(result.config.rules[i]) = Identity(rule)}

\* The entry that comes first in the document among those that name the rule
FirstMatch(rule) ==
    result.config.rules[CHOOSE i \in Matches(rule) : \A j \in Matches(rule) : i <= j]

\* C1: after override_rules, each rule that was in the set is decided by the
\* first configuration entry naming it: removed if that entry is Allow, still
\* present (by identity) if it is Warn or Deny, and present exactly as it was
\* if no entry names it.
C1_FirstMatchDecides ==
    Overridden =>
        \A rule \in before :
            IF Matches(rule) = {} THEN rule \in active
            ELSE IF FirstMatch(rule).severity = "Allow"
            THEN Identity(rule) \notin Identities(active)
            ELSE Identity(rule) \in Identities(active)

\* A rule named by two entries, the first Allow and the second not, next to a
\* rule that no entry names
C1_Witness ==
    /\ Overridden
    /\ \E rule \in before :
          /\ Cardinality(Matches(rule)) = 2
          /\ FirstMatch(rule).severity = "Allow"
          /\ \E i \in Matches(rule) : result.config.rules[i].severity # "Allow"
          /\ Identity(rule) \notin Identities(active)
    /\ \E rule \in before : Matches(rule) = {} /\ rule.config # None /\ rule \in active

\* C2: override_rules adds no rule kind: the identities in the set after the
\* call are among those in it before the call.
C2_NoNewKinds == Overridden => Identities(active) \subseteq Identities(before)

\* A Warn or Deny entry naming a kind that was not in the set, applied to a
\* set that holds another rule
C2_Witness ==
    /\ Overridden
    /\ before # {}
    /\ \E i \in 1..Len(result.config.rules) :
          /\ result.config.rules[i].severity # "Allow"
          /\ Identity(result.config.rules[i]) \notin Identities(before)

\* C3: a rule whose first matching entry is Warn or Deny carries, after
\* override_rules, that entry's severity and that entry's options.
C3_CarriesSeverityAndOptions ==
    Overridden =>
        \A rule \in before :
            (Matches(rule) # {} /\ FirstMatch(rule).severity \in {"Warn", "Deny"}) =>
                \E r \in active :
                    /\ Identity(r) = Identity(rule)
                    /\ r.severity = FirstMatch(rule).severity
                    /\ r.config = FirstMatch(rule).config

\* C4: override_rules is idempotent: a second application of the same
\* configuration leaves the set as the first application made it.
C4_Idempotent == (result.status = "ok" /\ applied >= 2) => active = before

\* Two applications of a configuration that reconfigured a rule, which a
\* second, different entry names too
C4_Witness ==
    /\ result.status = "ok"
    /\ applied = 2
    /\ \E r \in active :
          /\ r.config = Some(Array(<<OptX>>))
          /\ Cardinality(Matches(r)) = 2
          /\ \E i \in Matches(r) : result.config.rules[i].config = Some(Array(<<OptX, OptY>>))

-----------------------------------------------------------------------------
(* Properties of the load, under Spec *)

\* The members of the "rules" object of the file, <<>> if there is none
RuleMembers ==
    IF file.kind = "text" /\ file.json # None /\ file.json[1].tag = "object"
       /\ get(file.json[1], Key("rules")) # None
       /\ get(file.json[1], Key("rules"))[1].tag = "object"
    THEN get(file.json[1], Key("rules"))[1].members
    ELSE <<>>

\* The positions of the rule entries whose value does not decode
Failing == {i \in 1..Len(RuleMembers) : ~resolve_rule_value(RuleMembers[i][2]).ok}

\* C8: the load is fail-fast and all-or-nothing: the first rule entry, in
\* document order, whose value fails to decode makes the load return that
\* error and no configuration; a configuration is returned only when every
\* entry decoded, and then it holds one rule per entry, in order.
C8_FailFast ==
    /\ (result # Unloaded /\ Failing # {}) =>
            /\ result.status = "err"
            /\ result.err = resolve_rule_value(
                    RuleMembers[CHOOSE i \in Failing : \A j \in Failing : i <= j][2]).err
    /\ result.status = "ok" =>
            /\ Failing = {}
            /\ Len(result.config.rules) = Len(RuleMembers)
            /\ \A i \in 1..Len(RuleMembers) :
                    result.config.rules[i].severity = resolve_rule_value(RuleMembers[i][2]).val[1]

\* A first entry that decodes followed by one that does not
C8_Witness ==
    /\ result.status = "err"
    /\ Len(RuleMembers) = 2
    /\ Failing = {2}

\* The file's settings have a "jsx-a11y" object whose "components" object holds
\* a value that is not a string
BadComponents ==
    /\ file.kind = "text" /\ file.json # None /\ file.json[1].tag = "object"
    /\ LET settings == get(file.json[1], Key("settings"))
       IN /\ settings # None /\ settings[1].tag = "object"
          /\ LET jsx == get(settings[1], Key("jsx-a11y"))
             IN /\ jsx # None /\ jsx[1].tag = "object"
                /\ LET comps == get(jsx[1], Key("components"))
                   IN /\ comps # None /\ comps[1].tag = "object"
                      /\ \E i \in 1..Len(comps[1].members) :
                            comps[1].members[i][2].tag # "string"

\* C9: a "components" value that is not a string makes the load end in an
\* error returned to the caller, not in a crash and not in a Settings value.
C9_ComponentsErrorReturned ==
    (result # Unloaded /\ BadComponents) => result.status = "err"

-----------------------------------------------------------------------------
(* Properties of the decoding functions, under SpecDecode *)

Returned(fn) == call.fn = fn /\ ret # None

\* The severity a scalar spells, by the configuration format
Spelled(value) ==
    CASE value \in {String("off"), Number(0)} -> "Allow"
      [] value \in {String("warn"), Number(1)} -> "Warn"
      [] value \in {String("error"), Number(2)} -> "Deny"
      [] OTHER -> "none"

\* C5: a scalar rule value "off", "warn", "error", 0, 1 or 2 decodes to
\* Allow, Warn, Deny with no options, and never to an error.
C5_ScalarDecodes ==
    (Returned("resolve_rule_value") /\ Spelled(call.arg) # "none") =>
        ret[1] = Ok(<<Spelled(call.arg), None>>)

\* C6: a non-empty array whose first element is a valid severity decodes to
\* that severity with the elements at indices 1 and 2 as options, in order;
\* no options at all for an array of length 1; later elements are dropped.
C6_ArrayDecodes ==
    (/\ Returned("resolve_rule_value")
     /\ call.arg.tag = "array"
     /\ Len(call.arg.items) > 0
     /\ Spelled(call.arg.items[1]) # "none") =>
        LET items == call.arg.items
        IN /\ ret[1].ok
           /\ ret[1].val[1] = Spelled(items[1])
           /\ ret[1].val[2] =
                 CASE Len(items) = 1 -> None
                   [] Len(items) = 2 -> Some(Array(<<items[2]>>))
                   [] OTHER -> Some(Array(<<items[2], items[3]>>))

\* An array with elements beyond index 2
C6_Witness ==
    /\ Returned("resolve_rule_value")
    /\ call.arg = Array(<<Number(1), OptX, String("on"), OptX>>)
    /\ ret[1].ok

\* C7: an empty array, or a value that is neither a string nor an array,
\* fails with the "Invalid rule value" error that carries the text of the
\* value.
C7_InvalidRuleValue ==
    (/\ Returned("resolve_rule_value")
     /\ \/ call.arg.tag \notin {"string", "array"}
        \/ call.arg.tag = "array" /\ Len(call.arg.items) = 0) =>
        ret[1] = Err(FailedToParseRuleValueError(to_string(call.arg), "Invalid rule value"))

\* A bare number that spells a severity is rejected with its text
C7_Witness ==
    /\ Returned("resolve_rule_value")
    /\ call.arg = Number(1)
    /\ ~ret[1].ok
    /\ ret[1].err.value = <<"1">>

\* The positions of '/' in a key
Slashes(key) == {i \in 1..Len(key) : key[i] = "/"}

\* The scope of a key before the position i of its separator, without the '@'
\* characters it starts with
Scope(key, i) ==
    LET others == {j \in 1..(i - 1) : key[j] # "@"}
    IN IF others = {} THEN <<>>
       ELSE SubSeq(key, CHOOSE j \in others : \A k \in others : j <= k, i - 1)

\* C10: parse_rule_name is total: a key without '/' is a rule of "eslint" under
\* its own name; a key "scope/name" is split at its first '/', the scope loses
\* its leading '@' and is renamed if it is "typescript-eslint" or "jsx-a11y",
\* and the name is everything after that '/'.
C10_RuleName ==
    Returned("parse_rule_name") =>
        LET key == call.arg
        IN IF Slashes(key) = {} THEN ret[1] = <<(<<"eslint">>), key>>
           ELSE LET i == CHOOSE j \in Slashes(key) : \A k \in Slashes(key) : j <= k
                    scope == Scope(key, i)
                IN /\ ret[1][2] = SubSeq(key, i + 1, Len(key))
                   /\ ret[1][1] = CASE scope = <<"typescript-eslint">> -> <<"typescript">>
                                     [] scope = <<"jsx-a11y">> -> <<"jsx_a11y">>
                                     [] OTHER -> scope

\* A scoped key with the '@' marker and an alias
C10_Witness ==
    /\ Returned("parse_rule_name")
    /\ call.arg = <<"@", "jsx-a11y", "/", "no-var">>
    /\ ret[1] = <<(<<"jsx_a11y">>), (<<"no-var">>)>>

====
